---- MODULE Spec2Model ----
(***************************************************************************)
(* Model of Document-Translator: the translator                            *)
(* (src/src/translator.py), the text extractor                             *)
(* (src/src/document_processor.py), the utilities (src/src/utils.py) and   *)
(* the request handler of the app (src/app.py).                            *)
(*                                                                         *)
(* A Python str is a sequence of one-character strings.  Python's None is  *)
(* the string "None" in fields whose other values are strings (language    *)
(* codes, backend names, error messages).                                  *)
(***************************************************************************)
EXTENDS Integers, Sequences, FiniteSets, TLC

VARIABLES
    pc,                 \* position of the running call
    text,               \* the text argument (a str)
    text_type,          \* dynamic type of the text argument: "str" or "NoneType"
    target_lang,        \* translate_text: target_lang
    source_arg,         \* translate_text: source_lang as passed by the caller
    source_lang,        \* translate_text: the local source_lang (reassigned by detection)
    backend,            \* translate_text: backend (preferred) / mapper: backend
    chunk_size,         \* translate_text, _split_text_into_chunks: chunk_size
    chunks,             \* the chunk list
    chunked,            \* whether _split_text_into_chunks ran in this call
    translated_chunks,  \* translate_text: translated_chunks
    attempt,            \* index into the candidate list of the failover loop
    i,                  \* index of the next chunk of the current attempt (1-based)
    calls,              \* log of the backend calls made, in order
    delays,             \* number of time.sleep(0.1) pauses taken
    detection_result,   \* result of detect_language
    detector_calls,     \* number of invocations of langdetect (detect, detect_langs)
    result,             \* the dict returned by translate_text
    language_mappings,  \* self.language_mappings
    lang_code,          \* _get_backend_language_code: lang_code
    backend_code,       \* _get_backend_language_code: the returned code
    file_input,         \* extract_text: file_path_or_bytes (its type, the bytes behind it)
    file_extension,     \* extract_text: file_extension
    extraction_result,  \* the dict returned by extract_text
    lib_calls,          \* the strategies the extractor attempted, in order
    tmp_files,          \* number of temporary files of the extractor on disk
    filename,           \* validate_file, create_translated_pdf, app: the file's name
    content_len,        \* validate_file: len(file_content) (-1: no bytes object)
    max_size_mb,        \* validate_file: max_size_mb
    validation,         \* the dict returned by validate_file
    pdf_output,         \* what create_translated_pdf returned or raised
    app_pc,             \* position of the app's request handler
    source_lang_code,   \* app: source_lang_code
    target_lang_code,   \* app: target_lang_code
    detected_lang,      \* app: detected_lang
    log                 \* the lines log_translation has appended

vars == <<pc, text, text_type, target_lang, source_arg, source_lang, backend,
          chunk_size, chunks, chunked, translated_chunks, attempt, i, calls,
          delays, detection_result, detector_calls, result, language_mappings,
          lang_code, backend_code, file_input, file_extension, extraction_result,
          lib_calls, tmp_files, filename, content_len, max_size_mb, validation,
          pdf_output, app_pc, source_lang_code, target_lang_code, detected_lang, log>>

\* the variables of the extractor, of the utilities and of the app
extractorVars == <<file_input, file_extension, extraction_result, lib_calls, tmp_files>>
utilsVars == <<filename, content_len, max_size_mb, validation, pdf_output>>
appVars == <<app_pc, source_lang_code, target_lang_code, detected_lang, log>>
docVars == <<extractorVars, utilsVars, appVars>>

None == "None"

\* ------------------------------------------------------------------ strings

Whitespace == {" ", "\n", "\t"}

IsSpace(c) == c \in Whitespace

AllSpace(s) == \A k \in 1..Len(s) : IsSpace(s[k])

RECURSIVE LStrip(_)
LStrip(s) == IF s # <<>> /\ IsSpace(Head(s)) THEN LStrip(Tail(s)) ELSE s

RECURSIVE RStrip(_)
RStrip(s) ==
    IF s # <<>> /\ IsSpace(s[Len(s)]) THEN RStrip(SubSeq(s, 1, Len(s) - 1)) ELSE s

\* str.strip()
Strip(s) == RStrip(LStrip(s))

\* the first whitespace-delimited word of a string that starts with a non-space
RECURSIVE FirstWord(_)
FirstWord(s) ==
    IF s = <<>> \/ IsSpace(Head(s)) THEN <<>> ELSE <<Head(s)>> \o FirstWord(Tail(s))

\* str.split() with no argument: the whitespace-delimited words, in order
RECURSIVE Split(_)
Split(s) ==
    LET t == LStrip(s) IN
    IF t = <<>> THEN <<>>
    ELSE LET w == FirstWord(t) IN <<w>> \o Split(SubSeq(t, Len(w) + 1, Len(t)))

\* sep.join(parts)
RECURSIVE Join(_, _)
Join(parts, sep) ==
    IF parts = <<>> THEN <<>>
    ELSE IF Len(parts) = 1 THEN parts[1]
    ELSE parts[1] \o sep \o Join(Tail(parts), sep)

Space == <<" ">>

\* ------------------------------------------------------------------ chunker

\* The for-loop of _split_text_into_chunks over the remaining words; st is
\* (chunks, current_chunk, current_length).
RECURSIVE SplitLoop(_, _, _, _, _)
SplitLoop(words, size, done, current_chunk, current_length) ==
    IF words = <<>>
    THEN IF current_chunk # <<>> THEN Append(done, Join(current_chunk, Space)) ELSE done
    ELSE LET word == Head(words)
             word_length == Len(word) + 1
         IN IF current_length + word_length > size /\ current_chunk # <<>>
            THEN SplitLoop(Tail(words), size, Append(done, Join(current_chunk, Space)),
                           <<word>>, word_length)
            ELSE SplitLoop(Tail(words), size, done,
                           Append(current_chunk, word), current_length + word_length)

\* a chunker that takes the word loop whatever the length of the text
split_words_always(t, size) == SplitLoop(Split(t), size, <<>>, <<>>, 0)

\* DocumentTranslator._split_text_into_chunks
split_text_into_chunks(t, size) ==
    IF Len(t) <= size THEN <<t>>
    ELSE SplitLoop(Split(t), size, <<>>, <<>>, 0)

\* ------------------------------------------------------------------ detector

Lower == {"a", "b", "c", "d", "e", "f", "g", "h", "i", "j", "k", "l", "m",
          "n", "o", "p", "q", "r", "s", "t", "u", "v", "w", "x", "y", "z"}

Upper == {"A", "B", "C", "D", "E", "F", "G", "H", "I", "J", "K", "L", "M",
          "N", "O", "P", "Q", "R", "S", "T", "U", "V", "W", "X", "Y", "Z"}

Digit == {"0", "1", "2", "3", "4", "5", "6", "7", "8", "9"}

Letter == Lower \cup Upper

\* \w, for the word boundaries \b of the e-mail pattern
IsWordChar(c) == c \in Letter \cup Digit \cup {"_"}

\* one character of the URL pattern's repeated group: [a-zA-Z] | [0-9] |
\* [$-_@.&+] (the range from "$" to "_") | [!*\\(\\),]
IsUrlChar(c) ==
    c \in Letter \cup Digit \cup
          {"$", "%", "&", "'", "(", ")", "*", "+", ",", "-", ".", "/", ":", ";",
           "<", "=", ">", "?", "@", "[", "\\", "]", "^", "_", "!"}

\* [A-Za-z0-9._%+-]
IsLocalChar(c) == c \in Letter \cup Digit \cup {".", "_", "%", "+", "-"}

\* [A-Za-z0-9.-]
IsDomainChar(c) == c \in Letter \cup Digit \cup {".", "-"}

\* [A-Z|a-z]
IsTldChar(c) == c \in Letter \cup {"|"}

IsUrlCharAt(s, k) == k <= Len(s) /\ IsUrlChar(s[k])
IsLocalCharAt(s, k) == k <= Len(s) /\ IsLocalChar(s[k])
IsDomainCharAt(s, k) == k <= Len(s) /\ IsDomainChar(s[k])
IsTldCharAt(s, k) == k <= Len(s) /\ IsTldChar(s[k])

\* whether s holds the characters of lit at positions p, p+1, ...
HasAt(s, p, lit) ==
    /\ p + Len(lit) - 1 <= Len(s)
    /\ \A k \in 1..Len(lit) : s[p + k - 1] = lit[k]

\* the last position of the maximal run of URL characters starting at p
\* (p - 1 when there is none)
RECURSIVE UrlRunEnd(_, _)
UrlRunEnd(s, p) == IF IsUrlCharAt(s, p) THEN UrlRunEnd(s, p + 1) ELSE p - 1

\* the last position of the match of the URL pattern starting at p, 0 for none:
\* http[s]?://(...)+, every quantifier greedy
UrlMatchEnd(s, p) ==
    IF HasAt(s, p, <<"h", "t", "t", "p", "s", ":", "/", "/">>) /\ IsUrlCharAt(s, p + 8)
    THEN UrlRunEnd(s, p + 8)
    ELSE IF HasAt(s, p, <<"h", "t", "t", "p", ":", "/", "/">>) /\ IsUrlCharAt(s, p + 7)
    THEN UrlRunEnd(s, p + 7)
    ELSE 0

\* re.sub(url pattern, '', s): leftmost non-overlapping matches removed
RECURSIVE RemoveUrlsFrom(_, _)
RemoveUrlsFrom(s, p) ==
    IF p > Len(s) THEN <<>>
    ELSE LET e == UrlMatchEnd(s, p)
         IN IF e > 0 THEN RemoveUrlsFrom(s, e + 1)
            ELSE <<s[p]>> \o RemoveUrlsFrom(s, p + 1)

\* \b between positions k - 1 and k of s
WordBoundary(s, k) ==
    (k - 1 >= 1 /\ IsWordChar(s[k - 1])) # (k <= Len(s) /\ IsWordChar(s[k]))

RECURSIVE LocalRunEnd(_, _)
LocalRunEnd(s, p) == IF IsLocalCharAt(s, p) THEN LocalRunEnd(s, p + 1) ELSE p - 1

RECURSIVE DomainRunEnd(_, _)
DomainRunEnd(s, p) == IF IsDomainCharAt(s, p) THEN DomainRunEnd(s, p + 1) ELSE p - 1

RECURSIVE TldRunEnd(_, _)
TldRunEnd(s, p) == IF IsTldCharAt(s, p) THEN TldRunEnd(s, p + 1) ELSE p - 1

Max(S) == CHOOSE x \in S : \A y \in S : y <= x

\* the last position of the match of the e-mail pattern starting at p, 0 for
\* none: \b local+ @ domain+ \. tld{2,} \b.  The local part is the maximal run
\* (it must be followed by "@", which is no local character); the backtracking
\* search then prefers the longest domain and, for it, the longest tld.
EmailMatchEnd(s, p) ==
    LET at == LocalRunEnd(s, p) + 1
        dEnd == DomainRunEnd(s, at + 1)
        \* positions of the "." that follows the domain part
        Dots == {d \in (at + 2)..dEnd :
                    /\ s[d] = "."
                    /\ \E e \in (d + 2)..TldRunEnd(s, d + 1) : WordBoundary(s, e + 1)}
    IN IF /\ WordBoundary(s, p)
          /\ at > p
          /\ at <= Len(s)
          /\ s[at] = "@"
          /\ Dots # {}
       THEN LET d == Max(Dots)
            IN Max({e \in (d + 2)..TldRunEnd(s, d + 1) : WordBoundary(s, e + 1)})
       ELSE 0

\* re.sub(e-mail pattern, '', s)
RECURSIVE RemoveEmailsFrom(_, _)
RemoveEmailsFrom(s, p) ==
    IF p > Len(s) THEN <<>>
    ELSE LET e == EmailMatchEnd(s, p)
         IN IF e > 0 THEN RemoveEmailsFrom(s, e + 1)
            ELSE <<s[p]>> \o RemoveEmailsFrom(s, p + 1)

\* re.sub(r'\s+', ' ', s)
RECURSIVE CollapseSpaces(_)
CollapseSpaces(s) ==
    IF s = <<>> THEN <<>>
    ELSE IF IsSpace(Head(s)) THEN Space \o CollapseSpaces(LStrip(s))
    ELSE <<Head(s)>> \o CollapseSpaces(Tail(s))

\* DocumentTranslator._clean_text_for_detection
clean_text_for_detection(t) ==
    Strip(CollapseSpaces(RemoveEmailsFrom(RemoveUrlsFrom(t, 1), 1)))

\* the minimum cleaned length detect_language asks for
MinDetectLen == 10

\* the name detect_language reports for a code: supported_languages.get(code,
\* _get_language_name(code))
LanguageName(code) ==
    CASE code = "en" -> "English"
      [] code = "hi" -> "Hindi"
      [] code = "mr" -> "Marathi"
      [] code = "sa" -> "Sanskrit"
      [] code = "fr" -> "French"
      [] OTHER -> "Language (" \o code \o ")"

\* What langdetect does on one call of detect_language: detect() returns a
\* code or raises (LangDetectException, or anything else), and detect_langs()
\* in _calculate_confidence gives the detected code a probability (in
\* hundredths, already rounded), leaves it out of its list, or raises.
DetectedLangs == {"en", "hi", "fr"}

DetectorOutcomes ==
    [detect : DetectedLangs, probs : {"found"}, prob : {57, 100}]
    \cup [detect : DetectedLangs, probs : {"absent", "raise"}, prob : {0}]
    \cup [detect : {"LangDetectException", "Exception"}, probs : {"raise"}, prob : {0}]

\* DocumentTranslator._calculate_confidence, in hundredths
calculate_confidence(d) == IF d.probs = "found" THEN d.prob ELSE 50

\* the dict of the three failure returns of detect_language
UnknownResult(msg) ==
    [language |-> "unknown", confidence |-> 0, language_name |-> "Unknown",
     error |-> msg]

\* detect_language from the call of detect() on: the detection itself and
\* the two except clauses
run_detector(type, d) ==
    IF type # "str"
    THEN [result |-> UnknownResult("Unexpected error: expected string or bytes-like object"),
          invoked |-> 0]
    ELSE IF d.detect = "LangDetectException"
    THEN [result |-> UnknownResult("Detection failed: No features in text."),
          invoked |-> 1]
    ELSE IF d.detect = "Exception"
    THEN [result |-> UnknownResult("Unexpected error: detector failure"),
          invoked |-> 1]
    ELSE [result |-> [language |-> d.detect, confidence |-> calculate_confidence(d),
                      language_name |-> LanguageName(d.detect), error |-> None],
          invoked |-> 2]

\* a detector with no minimum length
detect_language_no_minimum(t, type, d) == run_detector(type, d)

\* DocumentTranslator.detect_language on a text of dynamic type `type`, when
\* langdetect behaves as d: the returned dict and the number of langdetect
\* invocations made (detect, then detect_langs).
detect_language(t, type, d) ==
    IF type = "str" /\ Len(Strip(clean_text_for_detection(t))) < MinDetectLen
    THEN [result |-> UnknownResult("Text too short for reliable detection"),
          invoked |-> 0]
    ELSE run_detector(type, d)

\* ------------------------------------------------------------------ mapper

KnownBackends == {"google", "microsoft", "libre", "mymemory"}

\* self.language_mappings as __init__ builds it
InitialMappings ==
    [c \in {"sa"} |-> [b \in KnownBackends |-> IF b = "libre" THEN "en" ELSE "sa"]]

\* a mapper that looks no table up
identity_code(code, b) == code

\* DocumentTranslator._get_backend_language_code
get_backend_language_code(code, b) ==
    IF code \in DOMAIN language_mappings
    THEN IF b \in DOMAIN language_mappings[code]
         THEN language_mappings[code][b]
         ELSE code
    ELSE code

\* ------------------------------------------------------------------ translate_text

\* What one backend does on one call: returns a translation, returns an empty
\* (falsy) value, or raises (in the constructor or in translate()).
Outcomes == {"ok", "empty", "raise"}

\* the string a backend returns for a chunk: the chunk, marked with the
\* backend and the language codes the translator was built with
Translation(b, src, tgt, chunk) == <<b, src, tgt>> \o chunk

\* _translate_chunk that returns whatever the backend returned
translate_chunk_keep_empty(chunk, tgt, src, b, o) ==
    LET backend_target == get_backend_language_code(tgt, b)
        backend_source == IF src # "auto" THEN get_backend_language_code(src, b) ELSE src
    IN IF b \notin KnownBackends \/ o = "raise"
       THEN [raised |-> FALSE, value |-> chunk]
       ELSE [raised |-> FALSE,
             value |-> IF o = "empty" THEN <<>>
                       ELSE Translation(b, backend_source, backend_target, chunk)]

\* DocumentTranslator._translate_chunk when the backend behaves as o: whether
\* the call raises, and the value it returns.  Every exception of the body
\* (an unsupported backend name, the constructor, translate()) is caught and
\* the original chunk returned.
translate_chunk(chunk, tgt, src, b, o) ==
    LET backend_target == get_backend_language_code(tgt, b)
        backend_source == IF src # "auto" THEN get_backend_language_code(src, b) ELSE src
    IN IF b \notin KnownBackends
       THEN [raised |-> FALSE, value |-> chunk]
       ELSE IF o = "raise"
       THEN [raised |-> FALSE, value |-> chunk]
       ELSE LET translated == IF o = "empty" THEN <<>>
                              ELSE Translation(b, backend_source, backend_target, chunk)
            IN [raised |-> FALSE, value |-> IF translated # <<>> THEN translated ELSE chunk]

\* the candidate list of the failover loop
Candidates(preferred) == <<preferred, "google", "libre", "mymemory">>

\* an emptiness test without strip()
is_empty_string(t) == t = <<>>

\* not text.strip()
is_blank(t) == Strip(t) = <<>>

\* the return of the empty-input check
EmptyResult(src, tgt, b) ==
    [translated_text |-> <<>>, source_language |-> src, target_language |-> tgt,
     backend_used |-> b, chunks_processed |-> 0, error |-> "Empty text provided"]

\* a same-language return that trims the text
SameLanguageResultTrimmed(t, src, tgt, b) ==
    [translated_text |-> Strip(t), source_language |-> src, target_language |-> tgt,
     backend_used |-> b, chunks_processed |-> 1, error |-> None,
     note |-> "No translation needed - same language"]

\* the return of the same-language check
SameLanguageResult(t, src, tgt, b) ==
    [translated_text |-> t, source_language |-> src, target_language |-> tgt,
     backend_used |-> b, chunks_processed |-> 1, error |-> None,
     note |-> "No translation needed - same language"]

\* the return after the failover loop ended without a success
AllFailedResult(src, tgt) ==
    [translated_text |-> <<>>, source_language |-> src, target_language |-> tgt,
     backend_used |-> None, chunks_processed |-> 0,
     error |-> "All translation backends failed"]

\* a success return that counts the pauses between chunks
SuccessResultCountingDelays(tc, cs, src, tgt, used) ==
    [translated_text |-> Join(tc, Space), source_language |-> src,
     target_language |-> tgt, backend_used |-> used,
     chunks_processed |-> Len(cs) - 1, error |-> None]

\* the success return with the chunks' translations joined without a
\* separator
SuccessResultUnspaced(tc, cs, src, tgt, used) ==
    [translated_text |-> Join(tc, <<>>), source_language |-> src,
     target_language |-> tgt, backend_used |-> used,
     chunks_processed |-> Len(cs), error |-> None]

\* the return after a backend completed every chunk
SuccessResult(tc, cs, src, tgt, used) ==
    [translated_text |-> Join(tc, Space), source_language |-> src,
     target_language |-> tgt, backend_used |-> used,
     chunks_processed |-> Len(cs), error |-> None]

\* the return of the outer except clause with the bare message as its error
ExceptionResultUnprefixed(src, tgt, msg) ==
    [translated_text |-> <<>>, source_language |-> src, target_language |-> tgt,
     backend_used |-> None, chunks_processed |-> 0, error |-> msg]

\* the return of the outer except clause
ExceptionResult(src, tgt, msg) ==
    [translated_text |-> <<>>, source_language |-> src, target_language |-> tgt,
     backend_used |-> None, chunks_processed |-> 0,
     error |-> "Translation failed: " \o msg]

\* ------------------------------------------------------------------ inputs

\* the texts handed to translate_text
EmptyText == <<>>
BlankText == <<" ", "\n">>
OneWord == <<"a", "b">>
TwoWords == <<"a", "b", " ", "c", "d">>
GapText == <<"a", "b", " ", " ", "c", "d", "\n", "e", "f">>
PaddedText == <<" ", "a", "b", "\n">>
LongText == <<"h", "e", "l", "l", "o", " ", "w", "o", "r", "l", "d", " ", "f", "o", "o">>

Texts == {EmptyText, BlankText, OneWord, TwoWords, GapText, PaddedText, LongText}

ChunkSizes == {3, 6, 5000}

TargetLangs == {"en", "hi", "sa"}

SourceLangs == {"auto", "en", "hi", "sa"}

PreferredBackends == KnownBackends \cup {"deepl"}

\* nothing has run yet
Idle ==
    /\ chunks = <<>>
    /\ chunked = FALSE
    /\ translated_chunks = <<>>
    /\ attempt = 0
    /\ i = 0
    /\ calls = <<>>
    /\ delays = 0
    /\ detection_result = <<>>
    /\ detector_calls = 0
    /\ result = <<>>
    /\ backend_code = None
    /\ language_mappings = InitialMappings
    /\ extraction_result = <<>>
    /\ lib_calls = <<>>
    /\ tmp_files = 0
    /\ validation = <<>>
    /\ pdf_output = <<>>
    /\ log = <<>>

\* a Python value that is a str or None: its type and, for a str, its characters
StrValue(s) == [type |-> "str", value |-> s]
NoneValue == [type |-> "NoneType", value |-> <<>>]

\* no file is at hand
NoFile == [type |-> "NoneType", bytes |-> <<>>, exists |-> FALSE]

\* no document operation and no app request is running
NoDocument ==
    /\ file_input = NoFile
    /\ file_extension = NoneValue
    /\ filename = NoneValue
    /\ content_len = 0
    /\ max_size_mb = 0
    /\ app_pc = "idle"
    /\ source_lang_code = None
    /\ target_lang_code = None
    /\ detected_lang = None

\* ------------------------------------------------------------------ translate_text

Init ==
    /\ pc = "start"
    /\ \/ text_type = "str" /\ text \in Texts
       \/ text_type = "NoneType" /\ text = <<>>
    /\ target_lang \in TargetLangs
    /\ source_arg \in SourceLangs
    /\ source_lang = source_arg
    /\ backend \in PreferredBackends
    /\ chunk_size \in ChunkSizes
    /\ lang_code = None
    /\ Idle
    /\ NoDocument

\* the detected code whatever the detection's error
resolved_source_unchecked(detection) == detection.language

\* the source language translate_text goes on with after a detection: the
\* fixed fallback when the detection has an error, else the detected code
resolved_source(detection) ==
    IF detection.error # None THEN "en" ELSE detection.language

\* translate_text up to the empty-input check; text.strip() raises on a text
\* that is no str, and the outer except clause returns
CheckEmpty ==
    /\ pc = "start"
    /\ IF text_type # "str"
       THEN /\ result' = <<ExceptionResult(source_lang, target_lang,
                              "'NoneType' object has no attribute 'strip'")>>
            /\ pc' = "done"
       ELSE IF is_blank(text)
       THEN /\ result' = <<EmptyResult(source_lang, target_lang, backend)>>
            /\ pc' = "done"
       ELSE /\ pc' = "resolve"
            /\ UNCHANGED result
    /\ UNCHANGED <<text, text_type, target_lang, source_arg, source_lang, backend,
                   chunk_size, chunks, chunked, translated_chunks, attempt, i, calls,
                   delays, detection_result, detector_calls, language_mappings,
                   lang_code, backend_code>>
    /\ UNCHANGED docVars

\* "if source_lang == 'auto'": the call of detect_language and the choice of
\* the source
ResolveSource ==
    /\ pc = "resolve"
    /\ \/ /\ source_lang = "auto"
          /\ \E d \in DetectorOutcomes :
                LET r == detect_language(text, text_type, d)
                IN /\ detection_result' = Append(detection_result, r.result)
                   /\ detector_calls' = detector_calls + r.invoked
                   /\ source_lang' = resolved_source(r.result)
       \/ /\ source_lang # "auto"
          /\ UNCHANGED <<detection_result, detector_calls, source_lang>>
    /\ pc' = "check_same"
    /\ UNCHANGED <<text, text_type, target_lang, source_arg, backend, chunk_size,
                   chunks, chunked, translated_chunks, attempt, i, calls, delays,
                   result, language_mappings, lang_code, backend_code>>
    /\ UNCHANGED docVars

\* the same-language check
CheckSame ==
    /\ pc = "check_same"
    /\ IF source_lang = target_lang
       THEN /\ result' = <<SameLanguageResult(text, source_lang, target_lang, backend)>>
            /\ pc' = "done"
       ELSE /\ pc' = "split"
            /\ UNCHANGED result
    /\ UNCHANGED <<text, text_type, target_lang, source_arg, source_lang, backend,
                   chunk_size, chunks, chunked, translated_chunks, attempt, i, calls,
                   delays, detection_result, detector_calls, language_mappings,
                   lang_code, backend_code>>
    /\ UNCHANGED docVars

\* the chunking and the set-up of the failover loop
SplitChunks ==
    /\ pc = "split"
    /\ chunks' = split_text_into_chunks(text, chunk_size)
    /\ chunked' = TRUE
    /\ translated_chunks' = <<>>
    /\ attempt' = 1
    /\ i' = 1
    /\ pc' = "loop"
    /\ UNCHANGED <<text, text_type, target_lang, source_arg, source_lang, backend,
                   chunk_size, calls, delays, detection_result, detector_calls,
                   result, language_mappings, lang_code, backend_code>>
    /\ UNCHANGED docVars

\* One pass of the inner loop: the call of _translate_chunk for chunk i with
\* the current candidate, then the pause, or the end of the attempt: the
\* break and the success return after the last chunk, and on an exception
\* the next candidate, or the all-failed return after the last one.
TranslateNextChunk ==
    /\ pc = "loop"
    /\ \E o \in Outcomes :
          LET b == Candidates(backend)[attempt]
              r == translate_chunk(chunks[i], target_lang, source_lang, b, o)
              done == Append(translated_chunks, r.value)
          IN /\ b \in KnownBackends \/ o = "raise"
             /\ calls' = Append(calls, [backend |-> b, chunk |-> chunks[i],
                                        index |-> i, outcome |-> o,
                                        attempt |-> attempt, value |-> r.value])
             /\ IF r.raised
                THEN /\ UNCHANGED delays
                     /\ IF attempt < Len(Candidates(backend))
                        THEN /\ attempt' = attempt + 1
                             /\ i' = 1
                             /\ translated_chunks' = <<>>
                             /\ UNCHANGED <<pc, result>>
                        ELSE /\ result' = <<AllFailedResult(source_lang, target_lang)>>
                             /\ pc' = "done"
                             /\ UNCHANGED <<attempt, i, translated_chunks>>
                ELSE /\ translated_chunks' = done
                     /\ UNCHANGED attempt
                     /\ IF i < Len(chunks)
                        THEN /\ delays' = delays + 1
                             /\ i' = i + 1
                             /\ UNCHANGED <<pc, result>>
                        ELSE /\ result' = <<SuccessResult(done, chunks, source_lang,
                                                          target_lang, b)>>
                             /\ pc' = "done"
                             /\ UNCHANGED <<delays, i>>
    /\ UNCHANGED <<text, text_type, target_lang, source_arg, source_lang, backend,
                   chunk_size, chunks, chunked, detection_result, detector_calls,
                   language_mappings, lang_code, backend_code>>
    /\ UNCHANGED docVars

Next == CheckEmpty \/ ResolveSource \/ CheckSame \/ SplitChunks \/ TranslateNextChunk

Spec == Init /\ [][Next]_vars

\* ------------------------------------------------------------------ the chunker alone

MaxTextLen == 5

MaxChunkSize == 6

ChunkAlphabet == {"a", "b", " ", "\n"}

\* every string over ChunkAlphabet of at most MaxTextLen characters
ChunkTexts == UNION {[1..n -> ChunkAlphabet] : n \in 0..MaxTextLen}

InitChunk ==
    /\ pc = "split_call"
    /\ text_type = "str"
    /\ text \in ChunkTexts
    /\ chunk_size \in 0..MaxChunkSize
    /\ target_lang = None
    /\ source_arg = None
    /\ source_lang = None
    /\ backend = None
    /\ lang_code = None
    /\ Idle
    /\ NoDocument

\* a call of _split_text_into_chunks(text, chunk_size)
SplitCall ==
    /\ pc = "split_call"
    /\ chunks' = split_text_into_chunks(text, chunk_size)
    /\ chunked' = TRUE
    /\ pc' = "split_done"
    /\ UNCHANGED <<text, text_type, target_lang, source_arg, source_lang, backend,
                   chunk_size, translated_chunks, attempt, i, calls, delays,
                   detection_result, detector_calls, result, language_mappings,
                   lang_code, backend_code>>
    /\ UNCHANGED docVars

SpecChunk == InitChunk /\ [][SplitCall]_vars

\* ------------------------------------------------------------------ the detector alone

MaxTokens == 3

\* the pieces the detector's texts are made of
Tokens ==
    { <<"h", "t", "t", "p", ":", "/", "/", "a", ".", "b">>,
      <<"h", "t", "t", "p", "s", ":", "/", "/", "x">>,
      <<"m", "e", "@", "a", "b", ".", "c", "o">>,
      <<"h", "e", "l", "l", "o">>,
      <<"w", "o", "r", "l", "d", "1">>,
      <<" ">>,
      <<"\n", "\t">>,
      <<".">> }

RECURSIVE Concat(_)
Concat(parts) == IF parts = <<>> THEN <<>> ELSE Head(parts) \o Concat(Tail(parts))

DetectTexts == {Concat(ts) : ts \in UNION {[1..n -> Tokens] : n \in 0..MaxTokens}}

InitDetect ==
    /\ pc = "detect_call"
    /\ \/ text_type = "str" /\ text \in DetectTexts
       \/ text_type = "NoneType" /\ text = <<>>
    /\ chunk_size = 0
    /\ target_lang = None
    /\ source_arg = None
    /\ source_lang = None
    /\ backend = None
    /\ lang_code = None
    /\ Idle
    /\ NoDocument

\* a call of detect_language(text)
DetectCall ==
    /\ pc = "detect_call"
    /\ \E d \in DetectorOutcomes :
          LET r == detect_language(text, text_type, d)
          IN /\ detection_result' = Append(detection_result, r.result)
             /\ detector_calls' = detector_calls + r.invoked
    /\ pc' = "detect_done"
    /\ UNCHANGED <<text, text_type, target_lang, source_arg, source_lang, backend,
                   chunk_size, chunks, chunked, translated_chunks, attempt, i, calls,
                   delays, result, language_mappings, lang_code, backend_code>>
    /\ UNCHANGED docVars

SpecDetect == InitDetect /\ [][DetectCall]_vars

\* ------------------------------------------------------------------ the mapper alone

LangCodes == {"en", "hi", "mr", "sa", "fr", "de", "auto", "unknown"}

BackendNames == KnownBackends \cup {"deepl", "yandex", ""}

InitMap ==
    /\ pc = "map_call"
    /\ lang_code \in LangCodes
    /\ backend \in BackendNames
    /\ text_type = "str"
    /\ text = <<>>
    /\ chunk_size = 0
    /\ target_lang = None
    /\ source_arg = None
    /\ source_lang = None
    /\ Idle
    /\ NoDocument

\* a call of _get_backend_language_code(lang_code, backend)
MapCall ==
    /\ pc = "map_call"
    /\ backend_code' = get_backend_language_code(lang_code, backend)
    /\ pc' = "map_done"
    /\ UNCHANGED <<text, text_type, target_lang, source_arg, source_lang, backend,
                   chunk_size, chunks, chunked, translated_chunks, attempt, i, calls,
                   delays, detection_result, detector_calls, result,
                   language_mappings, lang_code>>
    /\ UNCHANGED docVars

SpecMap == InitMap /\ [][MapCall]_vars

\* ------------------------------------------------------------------ extractor

\* str.lower() on one character
LowerChar(c) ==
    CASE c = "A" -> "a" [] c = "B" -> "b" [] c = "C" -> "c" [] c = "D" -> "d"
      [] c = "E" -> "e" [] c = "F" -> "f" [] c = "G" -> "g" [] c = "H" -> "h"
      [] c = "I" -> "i" [] c = "J" -> "j" [] c = "K" -> "k" [] c = "L" -> "l"
      [] c = "M" -> "m" [] c = "N" -> "n" [] c = "O" -> "o" [] c = "P" -> "p"
      [] c = "Q" -> "q" [] c = "R" -> "r" [] c = "S" -> "s" [] c = "T" -> "t"
      [] c = "U" -> "u" [] c = "V" -> "v" [] c = "W" -> "w" [] c = "X" -> "x"
      [] c = "Y" -> "y" [] c = "Z" -> "z" [] OTHER -> c

\* str.lower()
LowerCase(s) == [k \in 1..Len(s) |-> LowerChar(s[k])]

\* the character of a code point below 256; the characters outside ASCII are
\* named by their code point
Chr(b) ==
    CASE b = 10 -> "\n" [] b = 32 -> " " [] b = 65 -> "A" [] b = 97 -> "a"
      [] b = 129 -> "U+0081" [] b = 169 -> "U+00A9" [] b = 195 -> "U+00C3"
      [] b = 193 -> "U+00C1" [] b = 233 -> "U+00E9"
      [] OTHER -> "U+FFFD"

\* bytes.decode("utf-8") on sequences of one byte (below 0x80) and of two bytes
\* (a lead byte 0xC2..0xDF and a continuation byte 0x80..0xBF); any other byte
\* is a UnicodeDecodeError
RECURSIVE DecodeUtf8(_)
DecodeUtf8(bs) ==
    IF bs = <<>> THEN [ok |-> TRUE, text |-> <<>>]
    ELSE IF bs[1] < 128
         THEN LET rest == DecodeUtf8(Tail(bs))
              IN [ok |-> rest.ok, text |-> <<Chr(bs[1])>> \o rest.text]
    ELSE IF /\ bs[1] >= 194 /\ bs[1] <= 223
            /\ Len(bs) >= 2 /\ bs[2] >= 128 /\ bs[2] <= 191
         THEN LET rest == DecodeUtf8(Tail(Tail(bs)))
              IN [ok |-> rest.ok,
                  text |-> <<Chr((bs[1] % 32) * 64 + (bs[2] % 64))>> \o rest.text]
    ELSE [ok |-> FALSE, text |-> <<>>]

\* bytes.decode("latin-1") and bytes.decode("iso-8859-1"): every byte is the
\* character of the same code point
DecodeLatin1(bs) == [ok |-> TRUE, text |-> [k \in 1..Len(bs) |-> Chr(bs[k])]]

\* the bytes cp1252 leaves undefined
Cp1252Undefined == {129, 141, 143, 144, 157}

\* bytes.decode("cp1252") on the bytes outside 0x80..0x9F, where it agrees
\* with latin-1, and on its undefined bytes, which are a UnicodeDecodeError
DecodeCp1252(bs) ==
    IF \E k \in 1..Len(bs) : bs[k] \in Cp1252Undefined
    THEN [ok |-> FALSE, text |-> <<>>]
    ELSE DecodeLatin1(bs)

\* bytes.decode(encoding)
Decode(bs, encoding) ==
    CASE encoding = "utf-8" -> DecodeUtf8(bs)
      [] encoding = "latin-1" -> DecodeLatin1(bs)
      [] encoding = "cp1252" -> DecodeCp1252(bs)
      [] encoding = "iso-8859-1" -> DecodeLatin1(bs)

\* len(text.splitlines()) for texts whose only line boundary is "\n"
RECURSIVE CountLines(_)
CountLines(s) ==
    IF s = <<>> THEN 0
    ELSE LET nl == {k \in 1..Len(s) : s[k] = "\n"}
         IN IF nl = {} THEN 1
            ELSE 1 + CountLines(SubSeq(s, (CHOOSE k \in nl : \A j \in nl : k <= j) + 1,
                                       Len(s)))

\* the encodings of the fallback loop of _extract_txt_text
encodings == <<"utf-8", "latin-1", "cp1252", "iso-8859-1">>

\* f"direct-{encoding}"
DirectMethod(encoding) ==
    CASE encoding = "utf-8" -> "direct-utf-8"
      [] encoding = "latin-1" -> "direct-latin-1"
      [] encoding = "cp1252" -> "direct-cp1252"
      [] encoding = "iso-8859-1" -> "direct-iso-8859-1"

\* one attempt of an extraction strategy (a parsing library, a codec) and
\* whether it succeeded
Attempted(name, ok) == [name |-> name, ok |-> ok]

\* what an extraction returns: the dict, the strategies it attempted in
\* order, and the number of temporary files it left on disk
Extraction(r, c, t) == [result |-> r, calls |-> c, tmp_files |-> t]

\* the for-loop of _extract_txt_text over encodings[k..]; tried is the codecs
\* called so far
RECURSIVE TryEncodings(_, _, _)
TryEncodings(bs, k, tried) ==
    IF k > Len(encodings)
    THEN Extraction([text |-> <<>>, method |-> "none",
                     error |-> "Could not decode text file with any encoding"],
                    tried, 0)
    ELSE LET d == Decode(bs, encodings[k])
         IN IF d.ok
            THEN Extraction([text |-> d.text, lines |-> CountLines(d.text),
                             method |-> DirectMethod(encodings[k]), error |-> None],
                            Append(tried, Attempted(encodings[k], TRUE)), 0)
            ELSE TryEncodings(bs, k + 1, Append(tried, Attempted(encodings[k], FALSE)))

\* whether the input's bytes can be read: a path must name an existing file,
\* None has neither getvalue() nor decode()
Readable(f) == f.type \in {"bytes", "BytesIO"} \/ (f.type = "str" /\ f.exists)

\* _extract_txt_text that decodes as latin-1 first
extract_txt_text_latin1_first(f) ==
    IF ~Readable(f)
    THEN Extraction([text |-> <<>>, method |-> "none",
                     error |-> "TXT extraction failed"], <<>>, 0)
    ELSE LET d == Decode(f.bytes, "latin-1")
         IN Extraction([text |-> d.text, lines |-> CountLines(d.text),
                        method |-> "direct", error |-> None],
                       <<Attempted("latin-1", TRUE)>>, 0)

\* _extract_txt_text(file_input)
extract_txt_text(f) ==
    IF ~Readable(f)
    THEN Extraction([text |-> <<>>, method |-> "none",
                     error |-> "TXT extraction failed"], <<>>, 0)
    ELSE LET d == Decode(f.bytes, "utf-8")
         IN IF d.ok
            THEN Extraction([text |-> d.text, lines |-> CountLines(d.text),
                             method |-> "direct", error |-> None],
                            <<Attempted("utf-8", TRUE)>>, 0)
            ELSE TryEncodings(f.bytes, 1, <<Attempted("utf-8", FALSE)>>)

\* full_text after the page loops of _extract_pdf_text: every page's text
\* followed by "\n\n"
RECURSIVE PagesText(_)
PagesText(pages) ==
    IF pages = <<>> THEN <<>>
    ELSE Head(pages) \o <<"\n", "\n">> \o PagesText(Tail(pages))

\* _extract_pdf_text whose parsers are tried in the other order
extract_pdf_text_fallback_first(f, o) ==
    IF o.fallback.ok
    THEN Extraction([text |-> Strip(PagesText(o.fallback.pages)),
                     pages |-> Len(o.fallback.pages),
                     method |-> "pypdf", error |-> None],
                    <<Attempted("pypdf", TRUE)>>, 0)
    ELSE IF o.primary.ok
    THEN Extraction([text |-> Strip(PagesText(o.primary.pages)),
                     pages |-> Len(o.primary.pages),
                     method |-> "PyMuPDF", error |-> None],
                    <<Attempted("pypdf", FALSE), Attempted("PyMuPDF", TRUE)>>, 0)
    ELSE Extraction([text |-> <<>>, pages |-> 0, method |-> "none",
                     error |-> "PDF extraction failed"],
                    <<Attempted("pypdf", FALSE), Attempted("PyMuPDF", FALSE)>>, 0)

\* _extract_pdf_text(file_input); o.primary is what the PyMuPDF strategy does
\* with the input and o.fallback what the pypdf strategy does: raise
\* (ok = FALSE) or parse it into the texts of its pages
extract_pdf_text(f, o) ==
    IF o.primary.ok
    THEN Extraction([text |-> Strip(PagesText(o.primary.pages)),
                     pages |-> Len(o.primary.pages),
                     method |-> "PyMuPDF", error |-> None],
                    <<Attempted("PyMuPDF", TRUE)>>, 0)
    ELSE IF o.fallback.ok
    THEN Extraction([text |-> Strip(PagesText(o.fallback.pages)),
                     pages |-> Len(o.fallback.pages),
                     method |-> "pypdf", error |-> None],
                    <<Attempted("PyMuPDF", FALSE), Attempted("pypdf", TRUE)>>, 0)
    ELSE Extraction([text |-> <<>>, pages |-> 0, method |-> "none",
                     error |-> "PDF extraction failed"],
                    <<Attempted("PyMuPDF", FALSE), Attempted("pypdf", FALSE)>>, 0)

\* the text of one table row: every cell's text followed by "\t", then "\n"
RECURSIVE RowText(_)
RowText(cells) ==
    IF cells = <<>> THEN <<"\n">> ELSE Head(cells) \o <<"\t">> \o RowText(Tail(cells))

\* the text of the rows of one table
RECURSIVE RowsText(_)
RowsText(rows) ==
    IF rows = <<>> THEN <<>> ELSE RowText(Head(rows)) \o RowsText(Tail(rows))

\* the text of all tables
RECURSIVE TablesText(_)
TablesText(tables) ==
    IF tables = <<>> THEN <<>> ELSE RowsText(Head(tables)) \o TablesText(Tail(tables))

\* every paragraph's text followed by "\n"
RECURSIVE ParagraphsText(_)
ParagraphsText(paragraphs) ==
    IF paragraphs = <<>> THEN <<>>
    ELSE Head(paragraphs) \o <<"\n">> \o ParagraphsText(Tail(paragraphs))

\* _extract_docx_text(file_input); o.primary is what python-docx does with the
\* input (raise, or parse it into paragraphs and tables) and o.fallback what
\* docx2python does (raise, or return a result with a text).  For an input
\* that is no path the fallback writes a temporary file first (None cannot be
\* written) and unlinks it after the with-block, which an exception inside
\* the block skips.
extract_docx_text(f, o) ==
    IF o.primary.ok
    THEN Extraction([text |-> Strip(ParagraphsText(o.primary.paragraphs)
                                    \o TablesText(o.primary.tables)),
                     paragraphs |-> Len(o.primary.paragraphs),
                     tables |-> Len(o.primary.tables),
                     method |-> "python-docx", error |-> None],
                    <<Attempted("python-docx", TRUE)>>, 0)
    ELSE IF f.type # "NoneType" /\ o.fallback.ok
    THEN Extraction([text |-> o.fallback.text, method |-> "docx2python",
                     error |-> None],
                    <<Attempted("python-docx", FALSE), Attempted("docx2python", TRUE)>>,
                    0)
    ELSE Extraction([text |-> <<>>, method |-> "none",
                     error |-> "DOCX extraction failed"],
                    <<Attempted("python-docx", FALSE), Attempted("docx2python", FALSE)>>,
                    IF f.type = "str" THEN 0 ELSE 1)

\* extract_text whose error result for an unsupported extension carries the
\* extension as its text
extract_text_echo(f, ext, o) ==
    IF ext.type # "str"
    THEN Extraction([text |-> <<>>, error |-> "AttributeError", pages |-> 0], <<>>, 0)
    ELSE LET e == LowerCase(ext.value)
         IN IF e = <<".", "p", "d", "f">> THEN extract_pdf_text(f, o)
            ELSE IF e = <<".", "d", "o", "c", "x">> THEN extract_docx_text(f, o)
            ELSE IF e = <<".", "t", "x", "t">> THEN extract_txt_text(f)
            ELSE Extraction([text |-> e, error |-> "Unsupported file format",
                             pages |-> 0], <<>>, 0)

\* extract_text(file_path_or_bytes, file_extension); ext is a str or None
extract_text(f, ext, o) ==
    IF ext.type # "str"
    THEN Extraction([text |-> <<>>, error |-> "AttributeError", pages |-> 0], <<>>, 0)
    ELSE LET e == LowerCase(ext.value)
         IN IF e = <<".", "p", "d", "f">> THEN extract_pdf_text(f, o)
            ELSE IF e = <<".", "d", "o", "c", "x">> THEN extract_docx_text(f, o)
            ELSE IF e = <<".", "t", "x", "t">> THEN extract_txt_text(f)
            ELSE Extraction([text |-> <<>>, error |-> "Unsupported file format",
                             pages |-> 0], <<>>, 0)

\* ------------------------------------------------------- extractor, in isolation

\* the translator's variables other than pc
translatorVars == <<text, text_type, target_lang, source_arg, source_lang, backend,
                    chunk_size, chunks, chunked, translated_chunks, attempt, i, calls,
                    delays, detection_result, detector_calls, result,
                    language_mappings, lang_code, backend_code>>

\* no call of the translator has been made
NoRequest ==
    /\ text_type = "str"
    /\ text = <<>>
    /\ chunk_size = 0
    /\ target_lang = None
    /\ source_arg = None
    /\ source_lang = None
    /\ backend = None
    /\ lang_code = None

MaxBytes == 2

\* "\n", " ", "A", 0x81 (undefined in cp1252), 0xA9 (a UTF-8 continuation byte)
\* and 0xC3 (a UTF-8 lead byte)
ByteAlphabet == {10, 32, 65, 129, 169, 195}

ByteStrings == UNION {[1..n -> ByteAlphabet] : n \in 0..MaxBytes}

\* the values of file_path_or_bytes: the path of an existing file, the path of
\* no file, a bytes object, a BytesIO and None
FileInputs ==
    {[type |-> t, bytes |-> b, exists |-> TRUE] :
        t \in {"str", "bytes", "BytesIO"}, b \in ByteStrings}
    \cup {[type |-> "str", bytes |-> <<>>, exists |-> FALSE], NoFile}

Extensions ==
    {StrValue(<<".", "p", "d", "f">>), StrValue(<<".", "P", "D", "F">>),
     StrValue(<<".", "d", "o", "c", "x">>), StrValue(<<".", "D", "o", "c", "x">>),
     StrValue(<<".", "t", "x", "t">>), StrValue(<<".", "T", "X", "T">>),
     StrValue(<<".", "x", "y", "z">>), StrValue(<<>>), NoneValue}

\* a library raises
Raises == [ok |-> FALSE]

\* a library parses the input: the page texts a PDF parser sees, the
\* paragraphs and tables python-docx sees, the text docx2python returns
Parsed(pages, paragraphs, tables, t) ==
    [ok |-> TRUE, pages |-> pages, paragraphs |-> paragraphs, tables |-> tables,
     text |-> t]

ParsedDocuments ==
    {Parsed(<<>>, <<>>, <<>>, <<>>),
     Parsed(<<<<"a">>>>, <<<<"a">>>>, <<>>, <<"a">>),
     Parsed(<<<<" ", "a">>, <<>>>>, <<<<" ", "a">>>>,
            <<<<<<<<"b">>, <<"c">>>>>>>>, <<"\n", " ", "a", "\n", "\n">>),
     Parsed(<<LongText>>, <<LongText>>, <<>>, LongText)}

\* what one library can do with input f: it cannot parse a file that is not
\* there
LibraryOutcomes(f) ==
    IF f.type = "str" /\ ~f.exists THEN {Raises} ELSE {Raises} \cup ParsedDocuments

\* what the primary and the fallback library can do with input f
ExtractOutcomes(f) ==
    {[primary |-> a, fallback |-> b] : a \in LibraryOutcomes(f), b \in LibraryOutcomes(f)}

InitExtract ==
    /\ pc = "extract_call"
    /\ file_input \in FileInputs
    /\ file_extension \in Extensions
    /\ filename = NoneValue
    /\ content_len = 0
    /\ max_size_mb = 0
    /\ app_pc = "idle"
    /\ source_lang_code = None
    /\ target_lang_code = None
    /\ detected_lang = None
    /\ NoRequest
    /\ Idle

\* a call of extract_text(file_path_or_bytes, file_extension)
ExtractCall ==
    /\ pc = "extract_call"
    /\ \E o \in ExtractOutcomes(file_input) :
          LET r == extract_text(file_input, file_extension, o)
          IN /\ extraction_result' = <<r.result>>
             /\ lib_calls' = r.calls
             /\ tmp_files' = r.tmp_files
    /\ pc' = "extract_done"
    /\ UNCHANGED <<file_input, file_extension, utilsVars, appVars, translatorVars>>

SpecExtract == InitExtract /\ [][ExtractCall]_vars

\* ------------------------------------------------------------------ utilities

\* str.split(sep) for a one-character separator
RECURSIVE SplitOn(_, _)
SplitOn(s, sep) ==
    LET at == {k \in 1..Len(s) : s[k] = sep}
    IN IF at = {} THEN <<s>>
       ELSE LET k == CHOOSE j \in at : \A m \in at : j <= m
            IN <<SubSeq(s, 1, k - 1)>> \o SplitOn(SubSeq(s, k + 1, Len(s)), sep)

\* the longest line create_translated_pdf prints unwrapped
WrapWidth == 80

\* the word loop of create_translated_pdf that wraps a long line: the cells it
\* prints for the remaining words, current_line being current
RECURSIVE WrapWords(_, _)
WrapWords(words, current) ==
    IF words = <<>>
    THEN IF current # <<>> THEN <<Strip(current)>> ELSE <<>>
    ELSE IF Len(current) + Len(Head(words)) + 1 > WrapWidth
    THEN (IF current # <<>> THEN <<Strip(current)>> ELSE <<>>)
         \o WrapWords(Tail(words), Head(words) \o Space)
    ELSE WrapWords(Tail(words), current \o Head(words) \o Space)

\* the line loop of create_translated_pdf: what it prints for the lines, a
\* cell with its text or (for a blank line) a vertical space
RECURSIVE RenderLines(_)
RenderLines(lines) ==
    IF lines = <<>> THEN <<>>
    ELSE LET line == Head(lines)
         IN (IF Strip(line) # <<>>
             THEN IF Len(line) > WrapWidth
                  THEN [k \in 1..Len(WrapWords(SplitOn(line, " "), <<>>)) |->
                           [cell |-> WrapWords(SplitOn(line, " "), <<>>)[k]]]
                  ELSE <<[cell |-> line]>>
             ELSE <<[ln |-> 3]>>)
            \o RenderLines(Tail(lines))

\* what the FPDF library does in the normal rendering and in the rendering of
\* the error document: it produces the document or one of its calls raises
PdfOutcomes == [normal : {"ok", "raise"}, fallback : {"ok", "raise"}]

\* bytes(pdf.output(dest='S')): the serialised document, which begins with the
\* PDF header
PdfBytes(title, body) == <<"%PDF", [cell |-> title]>> \o body

\* the call returned content
ReturnedPdf(content) == [raised |-> FALSE, content |-> content]

\* the call raised
RaisedPdf == [raised |-> TRUE, content |-> <<>>]

\* create_translated_pdf(original_filename, translated_text, source_lang,
\* target_lang): the normal rendering runs in a try block (None has no
\* split()); the handler builds the error document without a guard
create_translated_pdf(original_filename, translated, src, tgt, o) ==
    IF translated.type = "str" /\ o.normal = "ok"
    THEN ReturnedPdf(PdfBytes("Translation", RenderLines(SplitOn(translated.value, "\n"))))
    ELSE IF o.fallback = "ok"
    THEN ReturnedPdf(PdfBytes("Translation Error", <<>>))
    ELSE RaisedPdf

\* the index of the last occurrence of character c in s, 0 for none
LastIndex(s, c) ==
    LET at == {k \in 1..Len(s) : s[k] = c}
    IN IF at = {} THEN 0 ELSE CHOOSE k \in at : \A j \in at : j <= k

\* s without its trailing "/" characters
RECURSIVE DropTrailingSlashes(_)
DropTrailingSlashes(s) ==
    IF s # <<>> /\ s[Len(s)] = "/"
    THEN DropTrailingSlashes(SubSeq(s, 1, Len(s) - 1)) ELSE s

\* Path(s).name: the final component of the path
PathName(s) ==
    LET p == DropTrailingSlashes(s)
    IN SubSeq(p, LastIndex(p, "/") + 1, Len(p))

\* Path(s).suffix: the final component from its last "." on, unless that "."
\* is its first or its last character
Suffix(s) ==
    LET name == PathName(s)
        k == LastIndex(name, ".")
    IN IF 1 < k /\ k < Len(name) THEN SubSeq(name, k, Len(name)) ELSE <<>>

supported_formats ==
    {<<".", "p", "d", "f">>, <<".", "d", "o", "c", "x">>, <<".", "t", "x", "t">>}

\* the bytes of one MB as validate_file counts it
MiB == 1024 * 1024

\* round(n / (1024 * 1024), 2), in hundredths: the quotient is exact in a
\* float and round() rounds a tie to the even neighbour
RoundedSizeMb(n) ==
    LET q == (n * 100) \div MiB
        r == (n * 100) % MiB
    IN IF 2 * r > MiB THEN q + 1
       ELSE IF 2 * r = MiB THEN q + (q % 2)
       ELSE q

\* validate_file whose size check rejects a file of exactly the maximum size
validate_file_at_least(n, name, max) ==
    IF n < 0 THEN [valid |-> FALSE, error |-> "File validation error"]
    ELSE IF n >= max * MiB THEN [valid |-> FALSE, error |-> "File too large"]
    ELSE IF name.type # "str" THEN [valid |-> FALSE, error |-> "File validation error"]
    ELSE IF LowerCase(Suffix(name.value)) \notin supported_formats
         THEN [valid |-> FALSE, error |-> "Unsupported file format"]
    ELSE IF n = 0 THEN [valid |-> FALSE, error |-> "File is empty"]
    ELSE [valid |-> TRUE, size_mb |-> RoundedSizeMb(n),
          extension |-> LowerCase(Suffix(name.value)), error |-> None]

\* validate_file(file_content, filename, max_size_mb); n is len(file_content),
\* or -1 when file_content is None, which has no len(); Path(None) raises too
validate_file(n, name, max) ==
    IF n < 0 THEN [valid |-> FALSE, error |-> "File validation error"]
    ELSE IF n > max * MiB THEN [valid |-> FALSE, error |-> "File too large"]
    ELSE IF name.type # "str" THEN [valid |-> FALSE, error |-> "File validation error"]
    ELSE IF LowerCase(Suffix(name.value)) \notin supported_formats
         THEN [valid |-> FALSE, error |-> "Unsupported file format"]
    ELSE IF n = 0 THEN [valid |-> FALSE, error |-> "File is empty"]
    ELSE [valid |-> TRUE, size_mb |-> RoundedSizeMb(n),
          extension |-> LowerCase(Suffix(name.value)), error |-> None]

\* ------------------------------------------- create_translated_pdf, in isolation

\* a line of WrapWidth + 1 characters, nine words of eight letters
LongLine == [k \in 1..(WrapWidth + 1) |-> IF k % 9 = 0 THEN " " ELSE "a"]

\* translated texts: the texts of the translator, a text with a blank line and
\* a text with a line to wrap
PdfTexts == Texts \cup {<<"a", "\n", "\n", "b">>, LongLine \o <<"\n", "b">>}

Filenames ==
    {StrValue(<<"a", ".", "p", "d", "f">>), StrValue(<<"a", ".", "P", "D", "F">>),
     StrValue(<<"a", ".", "d", "o", "c", "x">>), StrValue(<<"a", ".", "t", "x", "t">>),
     StrValue(<<"a", ".", "t", "x", "t", ".", "e", "x", "e">>),
     StrValue(<<".", "t", "x", "t">>), StrValue(<<"a", ".">>), StrValue(<<"a">>),
     StrValue(<<"p", "d", "f">>), NoneValue}

InitPdf ==
    /\ pc = "pdf_call"
    /\ filename \in Filenames
    /\ \/ text_type = "str" /\ text \in PdfTexts
       \/ text_type = "NoneType" /\ text = <<>>
    /\ source_lang \in TargetLangs
    /\ target_lang \in TargetLangs
    /\ chunk_size = 0
    /\ source_arg = None
    /\ backend = None
    /\ lang_code = None
    /\ file_input = NoFile
    /\ file_extension = NoneValue
    /\ content_len = 0
    /\ max_size_mb = 0
    /\ app_pc = "idle"
    /\ source_lang_code = None
    /\ target_lang_code = None
    /\ detected_lang = None
    /\ Idle

\* a call of create_translated_pdf(filename, text, source_lang, target_lang)
PdfCall ==
    /\ pc = "pdf_call"
    /\ \E o \in PdfOutcomes :
          pdf_output' = <<create_translated_pdf(filename, [type |-> text_type, value |-> text],
                                                source_lang, target_lang, o)>>
    /\ pc' = "pdf_done"
    /\ UNCHANGED <<text, text_type, target_lang, source_arg, source_lang, backend,
                   chunk_size, chunks, chunked, translated_chunks, attempt, i, calls,
                   delays, detection_result, detector_calls, result,
                   language_mappings, lang_code, backend_code>>
    /\ UNCHANGED <<extractorVars, filename, content_len, max_size_mb, validation, appVars>>

SpecPdf == InitPdf /\ [][PdfCall]_vars

\* ----------------------------------------------------- validate_file, in isolation

\* the values of max_size_mb: the default and two smaller ones
MaxSizes == {0, 1, 16}

\* the values of len(file_content): around each maximum, a size whose rounding
\* is a tie, and -1 for the content None
ContentLengths ==
    {-1, 0, 1, 131072, 16 * MiB + MiB}
    \cup UNION {{m * MiB - 1, m * MiB, m * MiB + 1} : m \in MaxSizes \ {0}}

InitValidate ==
    /\ pc = "validate_call"
    /\ filename \in Filenames
                    \cup {StrValue(<<"d", ".", "t", "x", "t", "/", "a">>),
                          StrValue(<<"a", ".", "t", "x", "t", "/">>), StrValue(<<>>)}
    /\ content_len \in ContentLengths
    /\ max_size_mb \in MaxSizes
    /\ file_input = NoFile
    /\ file_extension = NoneValue
    /\ app_pc = "idle"
    /\ source_lang_code = None
    /\ target_lang_code = None
    /\ detected_lang = None
    /\ NoRequest
    /\ Idle

\* a call of validate_file(file_content, filename, max_size_mb)
ValidateCall ==
    /\ pc = "validate_call"
    /\ validation' = <<validate_file(content_len, filename, max_size_mb)>>
    /\ pc' = "validate_done"
    /\ UNCHANGED <<extractorVars, filename, content_len, max_size_mb, pdf_output,
                   appVars, translatorVars>>

SpecValidate == InitValidate /\ [][ValidateCall]_vars

\* ------------------------------------------------------------------ app

\* the line log_translation(filename, source_lang, target_lang, success, error)
\* appends to the log
LogEntry(name, src, tgt, success, error) ==
    [status |-> IF success THEN "SUCCESS" ELSE "FAILED", filename |-> name,
     source |-> src, target |-> tgt, error |-> error]

\* the uploaded files' contents: empty, a letter, a blank, a line, a byte that
\* is no UTF-8, an accented letter in UTF-8
AppContents == {<<>>, <<65>>, <<32>>, <<65, 10>>, <<129>>, <<195, 169>>}

AppFilenames ==
    {StrValue(<<"a", ".", "p", "d", "f">>), StrValue(<<"a", ".", "D", "o", "c", "x">>),
     StrValue(<<"a", ".", "t", "x", "t">>), StrValue(<<"a", ".", "x", "y", "z">>)}

\* the languages and the backends of the sidebar's select boxes, the ends and
\* the default of the chunk size slider
AppSourceLangs == {"auto", "en", "hi"}
AppTargetLangs == {"en", "hi"}
AppBackends == {"google", "microsoft", "libre", "mymemory"}
AppChunkSizes == {1000, 5000, 10000}

\* the default of validate_file's max_size_mb
DefaultMaxSizeMb == 16

\* translate is pressed on an uploaded file; a content larger than the maximum
\* is modelled by its length, file_input holding its first bytes
InitApp ==
    /\ app_pc = "start"
    /\ pc = "idle"
    /\ filename \in AppFilenames
    /\ \E b \in AppContents :
          /\ file_input = [type |-> "BytesIO", bytes |-> b, exists |-> TRUE]
          /\ content_len \in {Len(b), DefaultMaxSizeMb * MiB + 1}
    /\ file_extension = NoneValue
    /\ max_size_mb = DefaultMaxSizeMb
    /\ source_lang_code \in AppSourceLangs
    /\ target_lang_code \in AppTargetLangs
    /\ detected_lang = None
    /\ backend \in AppBackends
    /\ chunk_size \in AppChunkSizes
    /\ text_type = "str"
    /\ text = <<>>
    /\ target_lang = None
    /\ source_arg = None
    /\ source_lang = None
    /\ lang_code = None
    /\ Idle

\* the handler reads the upload and validates it: an invalid file ends the
\* request; an exception of the upload's read() is caught by the handler's
\* outer except clause, which logs the failure
AppValidate ==
    /\ app_pc = "start"
    /\ \E read \in {"ok", "raise"} :
          IF read = "raise"
          THEN /\ log' = Append(log, LogEntry(filename, source_lang_code,
                                              target_lang_code, FALSE, "read failed"))
               /\ app_pc' = "ended"
               /\ UNCHANGED validation
          ELSE LET v == validate_file(content_len, filename, max_size_mb)
               IN /\ validation' = <<v>>
                  /\ app_pc' = IF v.valid THEN "extract" ELSE "ended"
                  /\ UNCHANGED log
    /\ UNCHANGED <<pc, extractorVars, filename, content_len, max_size_mb, pdf_output,
                   source_lang_code, target_lang_code, detected_lang, translatorVars>>

\* the handler's test of an extraction result that looks at the error only
extraction_without_error(r) == r.error = None

\* the handler's two tests of an extraction result: it goes on when the result
\* has no error and its text is not blank
extraction_usable(r) == r.error = None /\ Strip(r.text) # <<>>

\* the handler extracts the text of the upload, wrapped in a BytesIO, under
\* the filename's lower-cased suffix; an extraction error and a blank text end
\* the request
AppExtract ==
    /\ app_pc = "extract"
    /\ LET ext == StrValue(LowerCase(Suffix(filename.value)))
       IN /\ file_extension' = ext
          /\ \E o \in ExtractOutcomes(file_input) :
                LET r == extract_text(file_input, ext, o)
                IN /\ extraction_result' = <<r.result>>
                   /\ lib_calls' = r.calls
                   /\ tmp_files' = r.tmp_files
                   /\ app_pc' = IF extraction_usable(r.result) THEN "detect" ELSE "ended"
    /\ UNCHANGED <<pc, file_input, utilsVars, source_lang_code, target_lang_code,
                   detected_lang, log, translatorVars>>

\* the source language the handler goes on with after a detection
app_detected_lang(detection) ==
    IF detection.error # None THEN "en" ELSE detection.language

\* the handler resolves the source language (a failed detection gives "en"),
\* ends the request when it is the target language, and otherwise calls
\* translate_text(extracted_text, target_lang_code, detected_lang, backend,
\* chunk_size)
AppDetect ==
    /\ app_pc = "detect"
    /\ \E d \in DetectorOutcomes :
          LET extracted == extraction_result[1].text
              r == detect_language(extracted, "str", d)
              lang == IF source_lang_code = "auto" THEN app_detected_lang(r.result)
                      ELSE source_lang_code
          IN /\ IF source_lang_code = "auto"
                THEN /\ detection_result' = Append(detection_result, r.result)
                     /\ detector_calls' = detector_calls + r.invoked
                ELSE UNCHANGED <<detection_result, detector_calls>>
             /\ detected_lang' = lang
             /\ IF lang = target_lang_code
                THEN /\ app_pc' = "ended"
                     /\ UNCHANGED <<pc, text, text_type, target_lang, source_arg,
                                    source_lang>>
                ELSE /\ app_pc' = "translate"
                     /\ pc' = "start"
                     /\ text' = extracted
                     /\ text_type' = "str"
                     /\ target_lang' = target_lang_code
                     /\ source_arg' = lang
                     /\ source_lang' = lang
    /\ UNCHANGED <<extractorVars, utilsVars, source_lang_code, target_lang_code, log,
                   backend, chunk_size, chunks, chunked, translated_chunks, attempt, i,
                   calls, delays, result, language_mappings, lang_code, backend_code>>

\* translate_text has returned: an error result is logged as a failure;
\* otherwise the handler renders the PDF inside a try/except of its own and
\* logs the success
AppFinish ==
    /\ app_pc = "translate"
    /\ pc = "done"
    /\ LET t == result[1]
       IN IF t.error # None
          THEN /\ log' = Append(log, LogEntry(filename, detected_lang, target_lang_code,
                                              FALSE, t.error))
               /\ UNCHANGED pdf_output
          ELSE /\ \E o \in PdfOutcomes :
                     pdf_output' = <<create_translated_pdf(filename,
                                                           StrValue(t.translated_text),
                                                           t.source_language,
                                                           t.target_language, o)>>
               /\ log' = Append(log, LogEntry(filename, t.source_language,
                                              t.target_language, TRUE, None))
    /\ app_pc' = "ended"
    /\ UNCHANGED <<pc, extractorVars, filename, content_len, max_size_mb, validation,
                   source_lang_code, target_lang_code, detected_lang, translatorVars>>

NextApp ==
    \/ AppValidate
    \/ AppExtract
    \/ AppDetect
    \/ AppFinish
    \/ CheckEmpty
    \/ ResolveSource
    \/ CheckSame
    \/ SplitChunks
    \/ TranslateNextChunk

SpecApp == InitApp /\ [][NextApp]_vars

\* ------------------------------------------------------------------ properties

\* the dict translate_text returned (when pc = "done")
Returned == result[1]

\* a finished call of translate_text on a non-blank str whose resolved source
\* differs from the target
TranslatedRequest ==
    /\ pc = "done"
    /\ text_type = "str"
    /\ ~AllSpace(text)
    /\ source_lang # target_lang

\* the chunks' translations by backend b, joined by single spaces
JoinedTranslation(b) ==
    Join([k \in 1..Len(chunks) |->
             Translation(b, get_backend_language_code(source_lang, b),
                         get_backend_language_code(target_lang, b), chunks[k])],
         Space)

\* C1: when the preferred backend raises on every call and "google" succeeds
\* on every call, the result has backend_used = "google", error = None and
\* the text made of google's chunk translations.
C1_FailoverToGoogle ==
    ( /\ TranslatedRequest
      /\ backend \in KnownBackends \ {"google"}
      /\ \A k \in 1..Len(calls) :
            /\ calls[k].backend = backend => calls[k].outcome = "raise"
            /\ calls[k].backend = "google" => calls[k].outcome = "ok" )
    => /\ Returned.backend_used = "google"
       /\ Returned.error = None
       /\ Returned.translated_text = JoinedTranslation("google")

\* C2: when every candidate backend raises for every chunk, the result is
\* error = "All translation backends failed", translated_text = "",
\* backend_used = None, chunks_processed = 0.
C2_AllBackendsFailed ==
    ( /\ TranslatedRequest
      /\ \A k \in 1..Len(calls) : calls[k].outcome = "raise" )
    => /\ Returned.error = "All translation backends failed"
       /\ Returned.translated_text = <<>>
       /\ Returned.backend_used = None
       /\ Returned.chunks_processed = 0

\* C3: every returned result with error # None has translated_text = "" and
\* backend_used = None.
C3_ErrorResultIsEmpty ==
    (pc = "done" /\ Returned.error # None)
    => (Returned.translated_text = <<>> /\ Returned.backend_used = None)

\* C4: for a non-blank text whose resolved source equals the target, the
\* text comes back unchanged with chunks_processed = 1 and error = None, and
\* the request chunks nothing, pauses never and calls no backend.
C4_SameLanguageNoOp ==
    (pc = "done" /\ text_type = "str" /\ ~AllSpace(text) /\ source_lang = target_lang)
    => /\ Returned.translated_text = text
       /\ Returned.chunks_processed = 1
       /\ Returned.error = None
       /\ ~chunked
       /\ delays = 0
       /\ calls = <<>>

C4_Witness ==
    /\ pc = "done"
    /\ text = PaddedText
    /\ source_arg = "auto"
    /\ source_lang = target_lang
    /\ Returned.translated_text = PaddedText

\* C5: for an empty or all-whitespace text no detection, chunking or backend
\* call ever happens, whatever source_lang is, and the result is error =
\* "Empty text provided" with translated_text = "" and chunks_processed = 0.
C5_EmptyTextShortCircuit ==
    (text_type = "str" /\ AllSpace(text))
    => /\ detection_result = <<>>
       /\ detector_calls = 0
       /\ ~chunked
       /\ calls = <<>>
       /\ pc \in {"start", "done"}
       /\ pc = "done" => /\ Returned.error = "Empty text provided"
                         /\ Returned.translated_text = <<>>
                         /\ Returned.chunks_processed = 0

C5_Witness ==
    /\ pc = "done"
    /\ text = BlankText
    /\ source_arg = "auto"
    /\ Returned.error = "Empty text provided"

\* C6 as stated: every result with error = None has chunks_processed equal to
\* the number of chunks _split_text_into_chunks makes of the text.
C6_ChunksProcessedAlways ==
    (pc = "done" /\ Returned.error = None)
    => Returned.chunks_processed = Len(split_text_into_chunks(text, chunk_size))

\* C6 amended: every result with error = None whose resolved source differs
\* from the target has chunks_processed equal to the number of chunks
\* _split_text_into_chunks makes of the text; the same-language return has
\* chunks_processed = 1.
C6_ChunksProcessedWhenTranslated ==
    (pc = "done" /\ Returned.error = None)
    => Returned.chunks_processed =
          IF source_lang # target_lang
          THEN Len(split_text_into_chunks(text, chunk_size))
          ELSE 1

C6_Witness ==
    /\ pc = "done"
    /\ Returned.error = None
    /\ source_lang # target_lang
    /\ Returned.chunks_processed = 3
    /\ Len(calls) = 3

\* C7: for len(t) <= N, _split_text_into_chunks(t, N) is exactly [t], the
\* text's whitespace included.
C7_ShortTextIsOneChunk ==
    (pc = "split_done" /\ Len(text) <= chunk_size) => chunks = <<text>>

C7_Witness ==
    /\ pc = "split_done"
    /\ Len(text) = chunk_size
    /\ chunks = <<text>>
    /\ Len(text) >= 3
    /\ IsSpace(text[1])
    /\ text[2] = "\n"
    /\ ~AllSpace(text)

\* the length of the longest whitespace-delimited word of t (0 for none)
RECURSIVE MaxLen(_)
MaxLen(words) ==
    IF words = <<>> THEN 0
    ELSE LET m == MaxLen(Tail(words))
         IN IF Len(Head(words)) > m THEN Len(Head(words)) ELSE m

IsPrefix(a, s) == Len(a) <= Len(s) /\ SubSeq(s, 1, Len(a)) = a

\* whether s is the chunks cs in order, as they are, with nothing but
\* whitespace before, between and after them, and some between any two
RECURSIVE ChunksCover(_, _, _)
ChunksCover(s, cs, first) ==
    IF cs = <<>> THEN AllSpace(s)
    ELSE \E j \in 0..Len(s) :
            /\ first \/ j >= 1
            /\ AllSpace(SubSeq(s, 1, j))
            /\ IsPrefix(Head(cs), SubSeq(s, j + 1, Len(s)))
            /\ ChunksCover(SubSeq(s, j + Len(Head(cs)) + 1, Len(s)), Tail(cs), FALSE)

\* C8: for N >= 1 + the length of the longest word of t, the chunks of t are
\* t cut at whitespace: words in order, none split, and the whitespace inside
\* a chunk the original whitespace of t.
C8_ChunksReconstructText ==
    (pc = "split_done" /\ chunk_size >= 1 + MaxLen(Split(text)))
    => ChunksCover(text, chunks, TRUE)

\* C9: _get_backend_language_code("sa", "libre") is "en" and ("sa", "google")
\* is "sa"; a code with no entry in language_mappings comes back unchanged
\* for every backend name; language_mappings is never changed.
C9_BackendLanguageCode ==
    /\ language_mappings = InitialMappings
    /\ pc = "map_done" =>
          /\ (lang_code = "sa" /\ backend = "libre") => backend_code = "en"
          /\ (lang_code = "sa" /\ backend = "google") => backend_code = "sa"
          /\ lang_code \notin DOMAIN InitialMappings => backend_code = lang_code

C9_Witness ==
    /\ pc = "map_done"
    /\ lang_code = "sa"
    /\ backend = "libre"
    /\ backend_code = "en"

\* the length of the cleaned form of the text
CleanedLen == Len(clean_text_for_detection(text))

\* C10 as stated: a text whose cleaned form has fewer than 10 characters
\* gets language "unknown", confidence 0.0 and error "text too short", and
\* langdetect is never invoked.
C10_TooShortAsStated ==
    (pc = "detect_done" /\ text_type = "str" /\ CleanedLen < 10)
    => /\ detection_result[1].language = "unknown"
       /\ detection_result[1].confidence = 0
       /\ detection_result[1].error = "text too short"
       /\ detector_calls = 0

\* C10 amended: a text whose cleaned form has fewer than 10 characters gets
\* language "unknown", confidence 0.0 and error "Text too short for reliable
\* detection", and langdetect is never invoked.
C10_TooShortForDetection ==
    (pc = "detect_done" /\ text_type = "str" /\ CleanedLen < 10)
    => /\ detection_result[1].language = "unknown"
       /\ detection_result[1].confidence = 0
       /\ detection_result[1].error = "Text too short for reliable detection"
       /\ detector_calls = 0

\* a text of 10 characters or more that cleaning brings under 10
C10_Witness ==
    /\ pc = "detect_done"
    /\ text_type = "str"
    /\ Len(text) >= 10
    /\ CleanedLen < 10
    /\ CleanedLen > 0
    /\ detector_calls = 0
    /\ detection_result[1].language = "unknown"

\* the dict extract_text returned (when pc = "extract_done")
Extracted == extraction_result[1]

\* C11: extract_text returns a result for every input and every extension,
\* whatever the libraries do, and a result with an error has the text "".
C11_ExtractNeverRaises ==
    pc = "extract_done" =>
        /\ Len(extraction_result) = 1
        /\ "text" \in DOMAIN Extracted
        /\ "error" \in DOMAIN Extracted
        /\ Extracted.error # None => Extracted.text = <<>>

\* an unsupported extension ended in an error result
C11_Witness ==
    /\ pc = "extract_done"
    /\ file_extension = StrValue(<<".", "x", "y", "z">>)
    /\ Extracted.error = "Unsupported file format"
    /\ Extracted.text = <<>>

\* what create_translated_pdf returned or raised (when pc = "pdf_done")
Rendered == pdf_output[1]

\* C12: create_translated_pdf never raises and returns a non-empty byte
\* string, also when the building of the error document fails.
C12_PdfNeverRaises ==
    pc = "pdf_done" => ~Rendered.raised /\ Len(Rendered.content) > 0

\* the dict validate_file returned (when pc = "validate_done")
Validated == validation[1]

\* the file is larger than max_size_mb MiB
TooLarge == content_len > max_size_mb * MiB

\* the filename's lower-cased extension is none of .pdf, .docx, .txt
BadExtension ==
    \/ filename.type # "str"
    \/ LowerCase(Suffix(filename.value)) \notin supported_formats

\* C14: validate_file returns a result; it is valid = False with an error
\* when the file is larger than max_size_mb MiB, when the lower-cased
\* extension is not supported or when the content has length zero, and
\* valid = True with error = None exactly when none of the three holds.
C14_ValidateFile ==
    pc = "validate_done" =>
        /\ Len(validation) = 1
        /\ Validated.valid \in BOOLEAN
        /\ (TooLarge \/ BadExtension \/ content_len = 0)
               => (~Validated.valid /\ Validated.error # None)
        /\ content_len >= 0 =>
               (Validated.valid <=> ~(TooLarge \/ BadExtension \/ content_len = 0))
        /\ Validated.valid => Validated.error = None

\* a file of exactly the maximum size was accepted
C14_Witness ==
    /\ pc = "validate_done"
    /\ max_size_mb = 16
    /\ content_len = 16 * MiB
    /\ Validated.valid
    /\ Validated.extension = <<".", "p", "d", "f">>
    /\ Validated.size_mb = 1600

\* C13: when a request has ended, log_translation has been called exactly
\* once, wherever the request ended.
C13_LoggedExactlyOnce ==
    app_pc = "ended" => Len(log) = 1

\* the keys of an extraction result that count its pages or units
CountKeys == {"pages", "paragraphs", "tables", "lines"}

\* C15: an extraction result that carries an error also has a text, a page or
\* unit count and a method tag.
C15_ExtractionErrorComplete ==
    (pc = "extract_done" /\ Extracted.error # None) =>
        /\ "text" \in DOMAIN Extracted
        /\ "method" \in DOMAIN Extracted
        /\ DOMAIN Extracted \cap CountKeys # {}

\* C16: the calls of a request go to the candidates in the order of the list
\* [preferred, "google", "libre", "mymemory"]: a call that raises abandons
\* its candidate and the next call goes to the next candidate of the list,
\* chunk 1 first (a preferred "google" is followed by "google" again); a call
\* that returns keeps the candidate, and no call follows its last chunk.
C16_CandidatesInOrder ==
    TranslatedRequest =>
        \A k \in 1..Len(calls) :
            /\ calls[k].backend = Candidates(backend)[calls[k].attempt]
            /\ k = 1 => calls[k].attempt = 1
            /\ calls[k].outcome = "raise" =>
                  IF calls[k].attempt = Len(Candidates(backend))
                  THEN k = Len(calls)
                  ELSE /\ k < Len(calls)
                       /\ calls[k + 1].attempt = calls[k].attempt + 1
                       /\ calls[k + 1].index = 1
            /\ calls[k].outcome # "raise" =>
                  IF calls[k].index = Len(chunks)
                  THEN k = Len(calls)
                  ELSE /\ k < Len(calls)
                       /\ calls[k + 1].attempt = calls[k].attempt

\* the calls of the attempt that was running last
LastAttemptCalls == SelectSeq(calls, LAMBDA c : c.attempt = attempt)

\* C17: within one attempt the chunks are submitted one at a time in index
\* order, each after the call before it returned, and the translated_text of
\* a success is the attempt's results, one per chunk in index order, joined
\* by single spaces.
C17_ChunksInOrder ==
    (chunked /\ pc \in {"loop", "done"}) =>
        /\ \A k \in 1..Len(calls) :
              /\ calls[k].chunk = chunks[calls[k].index]
              /\ calls[k].index =
                    IF k > 1 /\ calls[k - 1].attempt = calls[k].attempt
                    THEN calls[k - 1].index + 1 ELSE 1
        /\ (pc = "done" /\ Returned.error = None) =>
              /\ Len(LastAttemptCalls) = Len(chunks)
              /\ \A k \in 1..Len(chunks) : LastAttemptCalls[k].index = k
              /\ Returned.translated_text =
                    Join([k \in 1..Len(chunks) |-> LastAttemptCalls[k].value], Space)

\* a request of three chunks succeeded
C17_Witness ==
    /\ pc = "done"
    /\ chunked
    /\ Len(chunks) = 3
    /\ Returned.error = None
    /\ Len(calls) = 3
    /\ Returned.translated_text =
          calls[1].value \o Space \o calls[2].value \o Space \o calls[3].value

\* C18: a call of _translate_chunk whose backend returned an empty or falsy
\* value returns the original chunk, and no call for a non-empty chunk
\* returns an empty string.
C18_EmptyTranslationKeepsChunk ==
    \A k \in 1..Len(calls) :
        /\ calls[k].outcome = "empty" => calls[k].value = calls[k].chunk
        /\ calls[k].chunk # <<>> => calls[k].value # <<>>

\* a backend returned an empty value for a non-empty chunk, which came back
C18_Witness ==
    \E k \in 1..Len(calls) :
        /\ calls[k].outcome = "empty"
        /\ calls[k].chunk # <<>>
        /\ calls[k].value = calls[k].chunk

\* translate_text is past its source resolution
PastResolution ==
    /\ pc \in {"check_same", "split", "loop", "done"}
    /\ text_type = "str"
    /\ ~AllSpace(text)

\* C19: the detector is invoked exactly for the source "auto" (of a
\* non-blank text): then the source becomes "en" when the detection has an
\* error and the detected code otherwise; the source of the no-op check, of
\* the mapper and of the result is never "auto".
C19_SourceResolution ==
    /\ pc \notin {"start", "resolve"} =>
          (Len(detection_result) = 1
              <=> (source_arg = "auto" /\ text_type = "str" /\ ~AllSpace(text)))
    /\ Len(detection_result) <= 1
    /\ PastResolution =>
          /\ source_lang # "auto"
          /\ source_arg # "auto" => source_lang = source_arg
          /\ source_arg = "auto" =>
                source_lang = IF detection_result[1].error # None THEN "en"
                              ELSE detection_result[1].language
          /\ \A k \in 1..Len(calls) :
                calls[k].outcome = "ok" =>
                    calls[k].value[2] = get_backend_language_code(source_lang,
                                                                  calls[k].backend)
          /\ pc = "done" => Returned.source_language = source_lang

\* a detection failed and the request was translated from "en"
C19_Witness ==
    /\ pc = "done"
    /\ source_arg = "auto"
    /\ Len(detection_result) = 1
    /\ detection_result[1].error # None
    /\ source_lang = "en"
    /\ Returned.source_language = "en"
    /\ Returned.error = None
    /\ Len(calls) > 0

\* extract_text was called with a PDF extension
PdfExtracted ==
    /\ pc = "extract_done"
    /\ file_extension.type = "str"
    /\ LowerCase(file_extension.value) = <<".", "p", "d", "f">>

\* the strategy named name was attempted, with the success ok
Tried(name, ok) == \E k \in 1..Len(lib_calls) : lib_calls[k] = Attempted(name, ok)

\* C20: for PDF input pypdf is tried only after PyMuPDF failed; the method is
\* "PyMuPDF" exactly when the primary succeeded, "pypdf" exactly when the
\* primary failed and the fallback succeeded, and "none", with an error, the
\* text "" and 0 pages, exactly when both failed.
C20_PdfFallbackOrder ==
    PdfExtracted =>
        /\ lib_calls[1].name = "PyMuPDF"
        /\ \A k \in 1..Len(lib_calls) :
              lib_calls[k].name = "pypdf" =>
                  (k = 2 /\ lib_calls[1] = Attempted("PyMuPDF", FALSE))
        /\ Extracted.method = "PyMuPDF" <=> Tried("PyMuPDF", TRUE)
        /\ Extracted.method = "pypdf"
              <=> (Tried("PyMuPDF", FALSE) /\ Tried("pypdf", TRUE))
        /\ Extracted.method = "none"
              <=> (Tried("PyMuPDF", FALSE) /\ Tried("pypdf", FALSE))
        /\ Extracted.method = "none"
              => (Extracted.error # None /\ Extracted.text = <<>> /\ Extracted.pages = 0)
        /\ Extracted.method \in {"PyMuPDF", "pypdf"} => Extracted.error = None

\* the primary parser failed and the fallback parser extracted the text
C20_Witness ==
    /\ PdfExtracted
    /\ lib_calls = <<Attempted("PyMuPDF", FALSE), Attempted("pypdf", TRUE)>>
    /\ Extracted.method = "pypdf"
    /\ Extracted.text = LongText
    /\ Extracted.pages = 1

\* C21: the text of a successful extraction has no leading and no trailing
\* whitespace.
C21_ExtractedTextStripped ==
    (pc = "extract_done" /\ Extracted.error = None) =>
        Strip(Extracted.text) = Extracted.text

\* the app's stages that have been invoked in the request
ValidateInvoked == Len(validation) = 1
ExtractInvoked == Len(extraction_result) = 1
DetectInvoked == Len(detection_result) = 1
TranslateInvoked == pc # "idle"
RenderInvoked == Len(pdf_output) = 1
SuccessLogged == \E k \in 1..Len(log) : log[k].status = "SUCCESS"

RECURSIVE ChunkWords(_)
ChunkWords(cs) ==
    IF cs = <<>> THEN <<>> ELSE Split(Head(cs)) \o ChunkWords(Tail(cs))

\* C23: every chunk _split_text_into_chunks returns is at most chunk_size
\* long, and the chunks' words are the words of the text, whole and in order.
C23_ChunksWithinSize ==
    pc = "split_done" =>
        /\ \A k \in 1..Len(chunks) : Len(chunks[k]) <= chunk_size
        /\ ChunkWords(chunks) = Split(text)

\* extract_text was called with a plain-text extension
TxtExtracted ==
    /\ pc = "extract_done"
    /\ file_extension.type = "str"
    /\ LowerCase(file_extension.value) = <<".", "t", "x", "t">>

\* reading the input as encoding enc fails
ReadFails(enc) == ~Readable(file_input) \/ ~Decode(file_input.bytes, enc).ok

\* C24: for plain text UTF-8 is tried first; only after its failure the
\* encodings utf-8, latin-1, cp1252, iso-8859-1 are tried in this order; the
\* first that decodes gives the text and the method tag and none is tried
\* after it; the error result (text "", method "none") is returned exactly
\* when every encoding fails.
C24_EncodingOrder ==
    TxtExtracted =>
        /\ Readable(file_input) =>
              (Len(lib_calls) >= 1 /\ lib_calls[1].name = "utf-8")
        /\ \A k \in 1..Len(lib_calls) :
              /\ lib_calls[k].ok <=> ~ReadFails(lib_calls[k].name)
              /\ k > 1 => lib_calls[k].name = encodings[k - 1]
              /\ k < Len(lib_calls) => ~lib_calls[k].ok
        /\ Extracted.error = None =>
              LET last == lib_calls[Len(lib_calls)]
              IN /\ last.ok
                 /\ Extracted.text = Decode(file_input.bytes, last.name).text
                 /\ Extracted.method = IF Len(lib_calls) = 1 THEN "direct"
                                       ELSE DirectMethod(last.name)
        /\ Extracted.error # None <=>
              \A k \in 1..Len(encodings) : ReadFails(encodings[k])
        /\ Extracted.error # None =>
              (Extracted.text = <<>> /\ Extracted.method = "none")

\* a file that is no UTF-8 was decoded as latin-1, the second fallback
C24_Witness ==
    /\ TxtExtracted
    /\ file_input.bytes = <<129, 65>>
    /\ lib_calls = <<Attempted("utf-8", FALSE), Attempted("utf-8", FALSE),
                     Attempted("latin-1", TRUE)>>
    /\ Extracted.method = "direct-latin-1"
    /\ Extracted.text = <<"U+0081", "A">>

\* the keys of a translation result
ResultFields == {"translated_text", "source_language", "target_language",
                 "backend_used", "chunks_processed", "error"}

\* the error of the outer except clause begins with this
FailurePrefix == "Translation failed: "

\* C25: translate_text returns a result with the six fields whatever the
\* text, the detector and the backends do; when an exception reaches the
\* outer except clause (text.strip() of a text that is no str raises before
\* the failover loop) the error begins with "Translation failed:", the
\* translated_text is "", backend_used is None and chunks_processed is 0.
C25_TranslateNeverRaises ==
    pc = "done" =>
        /\ Len(result) = 1
        /\ ResultFields \subseteq DOMAIN Returned
        /\ text_type # "str" =>
              /\ Returned.error # None
              /\ Len(Returned.error) >= Len(FailurePrefix)
              /\ SubSeq(Returned.error, 1, Len(FailurePrefix)) = FailurePrefix
              /\ Returned.translated_text = <<>>
              /\ Returned.backend_used = None
              /\ Returned.chunks_processed = 0
        /\ text_type = "str" =>
              (Returned.error \in {None, "Empty text provided"})

\* text.strip() raised on None and the outer except clause returned
C25_Witness ==
    /\ pc = "done"
    /\ text_type = "NoneType"
    /\ Returned.error = "Translation failed: 'NoneType' object has no attribute 'strip'"
    /\ Returned.translated_text = <<>>
    /\ calls = <<>>

\* extract_text was called with a DOCX extension on a bytes or BytesIO input
DocxBytesExtracted ==
    /\ pc = "extract_done"
    /\ file_extension.type = "str"
    /\ LowerCase(file_extension.value) = <<".", "d", "o", "c", "x">>
    /\ file_input.type \in {"bytes", "BytesIO"}

\* C26: when _extract_docx_text has returned for a bytes or BytesIO input,
\* no temporary file of its fallback path is left, whether the fallback
\* succeeded or raised.
C26_TempFileRemoved ==
    DocxBytesExtracted => tmp_files = 0

====
